---- MODULE Spec2Model ----
(***************************************************************************)
(* Model of the Cardputer Matrix pager (src/cardputer.ino): the message    *)
(* history buffer (addMessage), the two-phase sync cycle (syncMatrix,      *)
(* extractBatchToken), the send call (sendMessage) and the task loop       *)
(* (setup, loop).                                                          *)
(*                                                                         *)
(* C strings and Arduino Strings are sequences of one-character strings.   *)
(* A pointer that may be null (a JSON member that may be absent) is a      *)
(* sequence of length 0 (null) or 1 (the value).                           *)
(***************************************************************************)
EXTENDS Integers, Sequences, FiniteSets, TLC

\* ------------------------------------------------------------------------
\* Program constants
\* ------------------------------------------------------------------------
SYNC_INTERVAL_MS == 5000
MAX_HISTORY == 10
MAX_MSG_LEN == 120
SENDER_LEN == 32
HEAP_FLOOR == 40000
HTTP_OK == 200
\* unsigned long is 32 bits wide: a clock reading is kept as two 16-bit halves
W16 == 65536

\* ------------------------------------------------------------------------
\* Bounds of the model
\* ------------------------------------------------------------------------
\* number of addMessage calls explored by the history-buffer specification
MaxAppends == 12
\* number of addMessage calls explored per boot by the sync specification
MaxLog == 3
\* number of addMessage calls explored per boot by the loop specification
MaxLoopLog == 1
\* longest draft typed
MaxDraft == 2
\* latest clock reading (ms since boot) at which a loop tick still starts
MaxClock == 8000
MaxCopies == 1
MaxSends == 2

\* ------------------------------------------------------------------------
\* Values
\* ------------------------------------------------------------------------
None == << >>
Some(x) == << x >>
IsNull(p) == p = None
Deref(p) == p[1]

Min(a, b) == IF a < b THEN a ELSE b
Rep(c, n) == [i \in 1..n |-> c]

\* an unsigned long: hi * 2^16 + lo
Ms(hi, lo) == [hi |-> hi, lo |-> lo]
MsOf(n) == Ms(n \div W16, n % W16)

\* unsigned long addition and subtraction (modulo 2^32)
MsAdd(a, b) == Ms((a.hi + b.hi + ((a.lo + b.lo) \div W16)) % W16, (a.lo + b.lo) % W16)
MsSub(a, b) ==
    Ms((a.hi - b.hi - (IF a.lo < b.lo THEN 1 ELSE 0) + 2 * W16) % W16, (a.lo - b.lo + W16) % W16)

\* a > n, for an unsigned long a and a number n
MsGt(a, n) == a.hi > n \div W16 \/ (a.hi = n \div W16 /\ a.lo > n % W16)

Strncpy_whole(src, n) == src

\* strncpy(dst, src, n); dst[n] = '\0'
Strncpy(src, n) == SubSeq(src, 1, Min(Len(src), n))

EmptyMessage == [sender |-> << >>, body |-> << >>]

\* ------------------------------------------------------------------------
\* State
\* ------------------------------------------------------------------------
VARIABLES
    nextBatchToken,   \* String nextBatchToken
    lastSyncTime,     \* unsigned long lastSyncTime
    messageBuffer,    \* MatrixMessage messageBuffer[MAX_HISTORY]
    messageCount,     \* int messageCount
    isInputMode,      \* bool isInputMode
    inputString,      \* String inputString
    clock,            \* millis() at the start of the next step
    pc,               \* "boot" before setup() has run, "loop" after
    appended,         \* history variable: the (sender, body) pairs given to addMessage since boot
    lastCode,         \* history variable: the status of the last request syncMatrix issued since boot (0: none)
    forcedAt,         \* history variable: clock reading of the last post-send sync not yet followed by a periodic one
    txnIds,           \* history variable: the transaction ids of the PUTs issued since boot, in order
    deferred,         \* history variable: "due" while input mode is on and the interval has run out at a periodic test since the last sync call, "left" when input mode was then left in a pass without a sync call, else "no"
    ev                \* history variable: what the last step did

vars == << nextBatchToken, lastSyncTime, messageBuffer, messageCount, isInputMode,
           inputString, clock, pc, appended, lastCode, forcedAt, txnIds, deferred, ev >>

\* ------------------------------------------------------------------------
\* addMessage
\* ------------------------------------------------------------------------
ShiftUp_keep(buf) == buf

\* for (i = 0; i < MAX_HISTORY - 1; i++) messageBuffer[i] = messageBuffer[i+1];
ShiftUp(buf) ==
    [i \in 0..(MAX_HISTORY - 1) |-> IF i < MAX_HISTORY - 1 THEN buf[i + 1] ELSE buf[i]]

\* the slot written by addMessage and the buffer after the call;
\* sender and body are non-null here
addMessage(buf, cnt, sender, body) ==
    LET full == cnt >= MAX_HISTORY
        b1 == IF full THEN ShiftUp(buf) ELSE buf
        c1 == IF full THEN MAX_HISTORY - 1 ELSE cnt
        msg == [sender |-> Strncpy(sender, SENDER_LEN - 1),
                body |-> Strncpy(body, MAX_MSG_LEN - 1)]
    IN  [buf |-> IF c1 \in DOMAIN b1 THEN [b1 EXCEPT ![c1] = msg] ELSE b1,
         cnt |-> c1 + 1,
         widx |-> c1]

\* ------------------------------------------------------------------------
\* extractBatchToken
\* ------------------------------------------------------------------------
\* positions at which target occurs in stream
Occurrences(stream, target) ==
    { i \in 1..(Len(stream) - Len(target) + 1) :
        SubSeq(stream, i, i + Len(target) - 1) = target }

\* Stream::find: consumes the stream up to and including the first occurrence
\* of target; null when the stream ends first
StreamFind(stream, target) ==
    LET occ == Occurrences(stream, target)
    IN  IF occ = {} THEN None
        ELSE LET i == CHOOSE j \in occ : \A k \in occ : j <= k
             IN  Some(SubSeq(stream, i + Len(target), Len(stream)))

\* Stream::readStringUntil: the characters before the terminator, or all that
\* is left when the stream ends first
ReadStringUntil(stream, ch) ==
    LET occ == { i \in 1..Len(stream) : stream[i] = ch }
    IN  IF occ = {} THEN stream
        ELSE SubSeq(stream, 1, (CHOOSE j \in occ : \A k \in occ : j <= k) - 1)

QUOTE == "\""
NEXT_BATCH_KEY == << QUOTE, "n", "e", "x", "t", "_", "b", "a", "t", "c", "h", QUOTE >>

extractBatchToken_any(stream) == ReadStringUntil(stream, QUOTE)

\* find "next_batch", then ':', then '"', then read up to the next '"'
extractBatchToken(stream) ==
    LET s1 == StreamFind(stream, NEXT_BATCH_KEY)
    IN  IF IsNull(s1) THEN << >>
        ELSE LET s2 == StreamFind(Deref(s1), << ":" >>)
             IN  IF IsNull(s2) THEN << >>
                 ELSE LET s3 == StreamFind(Deref(s2), << QUOTE >>)
                      IN  IF IsNull(s3) THEN << >>
                          ELSE ReadStringUntil(Deref(s3), QUOTE)

\* ------------------------------------------------------------------------
\* What the network can answer
\* ------------------------------------------------------------------------
MSG == "m.room.message"
TEXT == "m.text"

SenderA == << "@", "a" >>
SenderB == << "@", "b" >>
BodyHi == << "h", "i" >>
BodyYo == << "y", "o" >>
TokS1 == << "s", "1" >>
TokS2 == << "s", "2" >>

\* one element of the timeline events array, as ArduinoJson hands it out:
\* a member that is absent (or no string) reads as a null pointer
Event(type, msgtype, sender, body) ==
    [type |-> type, msgtype |-> msgtype, sender |-> sender, body |-> body]

E_text1 == Event(Some(MSG), Some(TEXT), Some(SenderA), Some(BodyHi))
E_text2 == Event(Some(MSG), Some(TEXT), Some(SenderB), Some(BodyYo))
E_image == Event(Some(MSG), Some("m.image"), Some(SenderA), Some(BodyYo))
E_member == Event(Some("m.room.member"), None, Some(SenderB), None)
E_notype == Event(None, None, Some(SenderA), Some(BodyHi))
E_nomsgtype == Event(Some(MSG), None, Some(SenderA), Some(BodyHi))
E_nobody == Event(Some(MSG), Some(TEXT), Some(SenderA), None)
E_nosender == Event(Some(MSG), Some(TEXT), None, Some(BodyHi))

\* the filtered document of a phase 2 response: the deserialization error,
\* doc["next_batch"], whether doc["rooms"]["join"] has the key ROOM_ID, and
\* doc["rooms"]["join"][ROOM_ID]["timeline"]["events"] (null when absent)
Doc(err, nb, room, events) ==
    [err |-> err, nb |-> nb, room |-> room, events |-> events]

NoDoc == Doc("none", None, FALSE, None)

Docs ==
    { Doc("InvalidInput", None, FALSE, None),
      Doc("NoMemory", None, FALSE, None),
      Doc("Ok", Some(TokS2), FALSE, None),
      Doc("Ok", None, FALSE, None),
      Doc("Ok", Some(<< >>), FALSE, None),
      Doc("Ok", Some(TokS1), TRUE, None),
      Doc("Ok", Some(TokS2), TRUE, Some(<< >>)),
      Doc("Ok", Some(TokS2), TRUE, Some(<< E_text1 >>)),
      Doc("Ok", Some(TokS1), TRUE, Some(<< E_text2, E_text1 >>)),
      Doc("Ok", Some(TokS2), TRUE, Some(<< E_image, E_text2 >>)),
      Doc("Ok", Some(TokS1), TRUE, Some(<< E_member, E_notype, E_nomsgtype >>)),
      Doc("Ok", Some(TokS2), TRUE, Some(<< E_nobody >>)),
      Doc("Ok", Some(TokS2), TRUE, Some(<< E_nosender, E_text1 >>)),
      Doc("Ok", None, TRUE, Some(<< E_text1 >>)) }

\* the body of a phase 1 response as a character stream, with whether it is
\* a complete JSON document and the value of its top-level next_batch string
\* member (null when it has none)
Probe(stream, json, field) == [stream |-> stream, json |-> json, field |-> field]

NoProbe == Probe(<< >>, FALSE, None)

Probes ==
    { Probe(<< "{" >> \o NEXT_BATCH_KEY \o << ":", QUOTE, "s", "1", QUOTE, "}" >>, TRUE, Some(TokS1)),
      Probe(<< "{", QUOTE, "a", QUOTE, ":", "1", "," >> \o NEXT_BATCH_KEY
               \o << " ", ":", " ", QUOTE, "s", "2", QUOTE, "}" >>, TRUE, Some(TokS2)),
      Probe(<< "{" >> \o NEXT_BATCH_KEY \o << ":", QUOTE, QUOTE, "}" >>, TRUE, Some(<< >>)),
      Probe(<< "{", "}" >>, TRUE, None),
      Probe(<< "{" >>, FALSE, None),
      Probe(<< "{" >> \o NEXT_BATCH_KEY, FALSE, None),
      Probe(<< "{" >> \o NEXT_BATCH_KEY \o << ":", "1", "}" >>, TRUE, None),
      Probe(<< "{" >> \o NEXT_BATCH_KEY \o << ":", QUOTE, "s" >>, FALSE, None),
      Probe(<< "{" >> \o NEXT_BATCH_KEY \o << ":", "1", ",", QUOTE, "x", QUOTE, ":", "2", "}" >>,
            TRUE, None) }

\* one HTTP exchange of syncMatrix: the status http.GET() returns (negative
\* when the connection fails) and, for status 200, the body
Reply(code, probe, doc) == [code |-> code, probe |-> probe, doc |-> doc]

FailCodes == { 400, 401, 404, 500, -1 }

Replies ==
    { Reply(c, NoProbe, NoDoc) : c \in FailCodes }
    \cup { Reply(HTTP_OK, p, NoDoc) : p \in Probes }
    \cup { Reply(HTTP_OK, NoProbe, d) : d \in Docs }

\* the server answers the request it was sent: a phase 1 body to a request
\* without since, a phase 2 body to a request with since
ReplyFits(tok, reply) ==
    reply.code = HTTP_OK => IF Len(tok) = 0 THEN reply.doc = NoDoc ELSE reply.probe = NoProbe

\* what strncpy leaves in a slot when it is handed a null pointer and the
\* read does not trap
Garbage == { << >>, << "?" >> }

\* ------------------------------------------------------------------------
\* syncMatrix
\* ------------------------------------------------------------------------
LowHeap_off(heap) == FALSE

\* ESP.getFreeHeap() < 40000
LowHeap(heap) == heap < HEAP_FLOOR

TokenInvalid_no404(code) == code = 400 \/ code = 401

\* httpCode == 400 || httpCode == 401 || httpCode == 404
TokenInvalid(code) == code = 400 \/ code = 401 \/ code = 404

\* type && strcmp(type, "m.room.message") == 0, then
\* msgtype && strcmp(msgtype, "m.text") == 0
IsTextMessage(v) ==
    /\ ~IsNull(v.type) /\ Deref(v.type) = MSG
    /\ ~IsNull(v.msgtype) /\ Deref(v.msgtype) = TEXT

\* the state the events loop works on: the buffer, the addMessage calls since
\* boot, the events handed to addMessage in this cycle, and whether the
\* device has trapped
Hist(buf, cnt, log, calls, crash) ==
    [buf |-> buf, cnt |-> cnt, log |-> log, calls |-> calls, crash |-> crash]

\* addMessage(v["sender"], v["content"]["body"]): with both pointers non-null
\* the call of addMessage; with a null pointer strncpy reads address 0, which
\* either traps (the device reboots) or copies whatever is there
addMessageCall(v, h) ==
    LET senders == IF IsNull(v.sender) THEN Garbage ELSE { Deref(v.sender) }
        bodies == IF IsNull(v.body) THEN Garbage ELSE { Deref(v.body) }
        stored == { LET r == addMessage(h.buf, h.cnt, s, b)
                    IN  Hist(r.buf, r.cnt, Append(h.log, << s, b >>), Append(h.calls, v), FALSE)
                    : s \in senders, b \in bodies }
    IN  IF IsNull(v.sender) \/ IsNull(v.body)
        THEN stored \cup { Hist(h.buf, h.cnt, h.log, Append(h.calls, v), TRUE) }
        ELSE stored

\* for (JsonObject v : events) { ... }
RECURSIVE forEvents(_, _)
forEvents(events, hs) ==
    IF events = << >> THEN hs
    ELSE forEvents(Tail(events),
                   UNION { IF h.crash THEN { h }
                           ELSE IF IsTextMessage(Head(events)) THEN addMessageCall(Head(events), h)
                           ELSE { h } : h \in hs })

\* what one call of syncMatrix did
Cycle(trigger, wifi, heap, kind, start, since, reply, after, calls, crash) ==
    [trigger |-> trigger, wifi |-> wifi, heap |-> heap, kind |-> kind,
     start |-> start, since |-> since, code |-> reply.code,
     stream |-> reply.probe.stream, json |-> reply.probe.json, field |-> reply.probe.field,
     err |-> reply.doc.err, nb |-> reply.doc.nb, room |-> reply.doc.room,
     after |-> after, calls |-> calls, crash |-> crash]

NoReply == Reply(0, NoProbe, NoDoc)

\* the state a call of syncMatrix works on and leaves
Sync(tok, buf, cnt, log, rec, crash) ==
    [tok |-> tok, buf |-> buf, cnt |-> cnt, log |-> log, rec |-> rec, crash |-> crash]

phase1Token_drop(tok, reply) == tok

\* the token after a phase 1 response with status 200
phase1Token(tok, reply) ==
    LET foundToken == extractBatchToken(reply.probe.stream)
    IN  IF Len(foundToken) > 0 THEN foundToken ELSE tok

\* const char* nb = doc["next_batch"]; if (nb) nextBatchToken = String(nb);
phase2Token(tok, doc) == IF IsNull(doc.nb) THEN tok ELSE Deref(doc.nb)

\* the events the loop of phase 2 runs over
phase2Events(doc) ==
    IF doc.room /\ ~IsNull(doc.events) /\ Len(Deref(doc.events)) > 0
    THEN Deref(doc.events) ELSE << >>

\* the runs of syncMatrix() from the state (tok, buf, cnt, log), with
\* WiFi.status(), ESP.getFreeHeap() and the HTTP exchange as given
syncMatrix(trigger, tok, buf, cnt, log, wifi, heap, reply) ==
    LET skip(kind, hp) ==
            { Sync(tok, buf, cnt, log,
                   Cycle(trigger, wifi, hp, kind, tok, None, NoReply, tok, << >>, FALSE),
                   FALSE) }
        isInitialSync == Len(tok) = 0
        kind == IF isInitialSync THEN "initial" ELSE "incremental"
        since == IF isInitialSync THEN None ELSE Some(tok)
        done(t, h) ==
            Sync(IF h.crash THEN << >> ELSE t, h.buf, h.cnt, h.log,
                 Cycle(trigger, wifi, heap, kind, tok, since, reply,
                       IF h.crash THEN << >> ELSE t, h.calls, h.crash),
                 h.crash)
        h0 == Hist(buf, cnt, log, << >>, FALSE)
    IN  IF ~wifi THEN skip("nowifi", 0)
        ELSE IF LowHeap(heap) THEN skip("lowmem", heap)
        ELSE IF reply.code = HTTP_OK
             THEN IF isInitialSync
                  THEN { done(phase1Token(tok, reply), h0) }
                  ELSE IF reply.doc.err = "Ok"
                       THEN { done(phase2Token(tok, reply.doc), h)
                              : h \in forEvents(phase2Events(reply.doc), { h0 }) }
                       ELSE { done(tok, h0) }
             ELSE IF TokenInvalid(reply.code)
                  THEN { done(<< >>, h0) }
                  ELSE { done(tok, h0) }

\* a call of syncMatrix that got as far as http.GET()
Issued(c) == c.kind = "initial" \/ c.kind = "incremental"

CodeAfter(code, c) == IF Issued(c) THEN c.code ELSE code

\* the environment of one call of syncMatrix
Net(wifi, heap, reply) == [wifi |-> wifi, heap |-> heap, reply |-> reply]

Nets ==
    { Net(FALSE, 0, NoReply) }
    \cup { Net(TRUE, HEAP_FLOOR - 1, NoReply) }
    \cup { Net(TRUE, HEAP_FLOOR, r) : r \in Replies }

NetFits(tok, net) == ReplyFits(tok, net.reply)

\* ------------------------------------------------------------------------
\* Initial state: the globals as initialised, before setup() runs
\* ------------------------------------------------------------------------
\* what a step did: the syncMatrix calls in order, the slot addMessage wrote
\* (for a bare addMessage call), and for a loop tick the sendMessage call,
\* whether BtnA was clicked, how input mode was left ("sent", "cancel" or
\* "none"), whether input mode was on and whether the interval had run out
\* when the periodic condition was evaluated, and the time since a post-send
\* sync at which a periodic sync ran; and, when status.enter was read, input
\* mode and the draft as the test of line 489 saw them
Tick(op, syncs, widx, sends, btnA, left, composing, due, sinceForced, enter) ==
    [op |-> op, syncs |-> syncs, widx |-> widx, sends |-> sends, btnA |-> btnA,
     left |-> left, composing |-> composing, due |-> due, sinceForced |-> sinceForced,
     enter |-> enter]

Step(op, syncs, widx) == Tick(op, syncs, widx, << >>, FALSE, "none", FALSE, FALSE, None, None)

Init ==
    /\ nextBatchToken = << >>
    /\ lastSyncTime = MsOf(0)
    /\ messageBuffer = [i \in 0..(MAX_HISTORY - 1) |-> EmptyMessage]
    /\ messageCount = 0
    /\ isInputMode = FALSE
    /\ inputString = << >>
    /\ clock = MsOf(0)
    /\ pc = "boot"
    /\ appended = << >>
    /\ lastCode = 0
    /\ forcedAt = None
    /\ txnIds = << >>
    /\ deferred = "no"
    /\ ev = Step("init", << >>, -1)

\* the device traps and restarts: every global is initialised again
Reboot ==
    /\ nextBatchToken' = << >>
    /\ lastSyncTime' = MsOf(0)
    /\ messageBuffer' = [i \in 0..(MAX_HISTORY - 1) |-> EmptyMessage]
    /\ messageCount' = 0
    /\ isInputMode' = FALSE
    /\ inputString' = << >>
    /\ clock' = MsOf(0)
    /\ pc' = "boot"
    /\ appended' = << >>
    /\ lastCode' = 0
    /\ forcedAt' = None
    /\ txnIds' = << >>
    /\ deferred' = "no"

\* ------------------------------------------------------------------------
\* The history buffer on its own: any sequence of addMessage calls
\* ------------------------------------------------------------------------
LongSender == Rep("s", SENDER_LEN)
LongBody == Rep("b", MAX_MSG_LEN)

RingInputs == { << SenderA, BodyHi >>, << LongSender, LongBody >> }

RingAdd ==
    \E m \in RingInputs :
        /\ Len(appended) < MaxAppends
        /\ LET r == addMessage(messageBuffer, messageCount, m[1], m[2])
           IN  /\ messageBuffer' = r.buf
               /\ messageCount' = r.cnt
               /\ ev' = Step("add", << >>, r.widx)
        /\ appended' = Append(appended, m)
        /\ UNCHANGED << nextBatchToken, lastSyncTime, isInputMode, inputString, clock, pc,
                        lastCode, forcedAt, txnIds, deferred >>

RingNext == RingAdd

SpecRing == Init /\ [][RingNext]_vars

\* ------------------------------------------------------------------------
\* The copy into a slot: addMessage with strings of every length around the
\* slot sizes
\* ------------------------------------------------------------------------
Chars == << "0", "1", "2", "3", "4", "5", "6", "7", "8", "9" >>

\* a string of n characters in which no two neighbours are equal
Str(n) == [i \in 1..n |-> Chars[(i % 10) + 1]]

SenderLens == 0..(SENDER_LEN + 1)
BodyLens == { 0, 1, MAX_MSG_LEN - 2, MAX_MSG_LEN - 1, MAX_MSG_LEN, MAX_MSG_LEN + 1 }

CopyAdd ==
    \E n \in SenderLens, k \in BodyLens :
        /\ Len(appended) < MaxCopies
        /\ LET r == addMessage(messageBuffer, messageCount, Str(n), Str(k))
           IN  /\ messageBuffer' = r.buf
               /\ messageCount' = r.cnt
               /\ ev' = Step("add", << >>, r.widx)
        /\ appended' = Append(appended, << Str(n), Str(k) >>)
        /\ UNCHANGED << nextBatchToken, lastSyncTime, isInputMode, inputString, clock, pc,
                        lastCode, forcedAt, txnIds, deferred >>

CopyNext == CopyAdd

SpecCopy == Init /\ [][CopyNext]_vars

\* ------------------------------------------------------------------------
\* The sync engine on its own: setup(), then any sequence of syncMatrix calls
\* ------------------------------------------------------------------------
\* while (WiFi.status() != WL_CONNECTED) delay(500); ... delay(1000);
SetupElapsed == { 1500 }

\* setup(): WiFi is awaited, then syncMatrix() runs once
setup ==
    /\ pc = "boot"
    /\ \E d \in SetupElapsed, net \in Nets :
        /\ NetFits(nextBatchToken, net)
        /\ \E r \in syncMatrix("setup", nextBatchToken, messageBuffer, messageCount,
                               appended, net.wifi, net.heap, net.reply) :
            /\ Len(r.log) <= MaxLog
            /\ nextBatchToken' = r.tok
            /\ messageBuffer' = r.buf
            /\ messageCount' = r.cnt
            /\ appended' = r.log
            /\ lastCode' = CodeAfter(lastCode, r.rec)
            /\ ev' = Step("setup", << r.rec >>, -1)
        /\ clock' = MsAdd(clock, MsOf(d))
        /\ pc' = "loop"
        /\ UNCHANGED << lastSyncTime, isInputMode, inputString, forcedAt, txnIds, deferred >>

\* one call of syncMatrix(), whoever makes it
syncCall ==
    /\ pc = "loop"
    /\ \E net \in Nets :
        /\ NetFits(nextBatchToken, net)
        /\ \E r \in syncMatrix("call", nextBatchToken, messageBuffer, messageCount,
                               appended, net.wifi, net.heap, net.reply) :
            /\ Len(r.log) <= MaxLog
            /\ ev' = Step("sync", << r.rec >>, -1)
            /\ IF r.crash
               THEN Reboot
               ELSE /\ nextBatchToken' = r.tok
                    /\ messageBuffer' = r.buf
                    /\ messageCount' = r.cnt
                    /\ appended' = r.log
                    /\ lastCode' = CodeAfter(lastCode, r.rec)
                    /\ UNCHANGED << lastSyncTime, isInputMode, inputString, clock, pc, forcedAt,
                                    txnIds, deferred >>

SyncNext == setup \/ syncCall

SpecSync == Init /\ [][SyncNext]_vars

\* ------------------------------------------------------------------------
\* The whole program: setup(), then loop() for ever
\* ------------------------------------------------------------------------
\* M5Cardputer.Keyboard in one tick: isChange() && isPressed(), and the
\* keysState() read then
Key(change, word, del, enter) == [change |-> change, word |-> word, del |-> del, enter |-> enter]

Keys ==
    { Key(FALSE, << >>, FALSE, FALSE),
      Key(TRUE, << "a" >>, FALSE, FALSE),
      Key(TRUE, << >>, TRUE, FALSE),
      Key(TRUE, << >>, FALSE, TRUE),
      Key(TRUE, << "a" >>, FALSE, TRUE) }

\* the environment of one call of sendMessage: WiFi.status() and the status
\* http.PUT() returns
SendNet(wifi, code) == [wifi |-> wifi, code |-> code]
SendNets == { SendNet(FALSE, 0), SendNet(TRUE, HTTP_OK), SendNet(TRUE, 500) }

SENT_DELAY_MS == 500
FAIL_DELAY_MS == 1000

sendMessage_ok(at, text, snet) ==
    [text |-> text, wifi |-> snet.wifi, put |-> snet.wifi, txn |-> IF snet.wifi THEN Some(at) ELSE None,
     code |-> snet.code, ok |-> TRUE, took |-> SENT_DELAY_MS]

\* sendMessage(text) called at clock reading at: whether a PUT was issued, its
\* transaction id (String(millis())), the status, the result and the delay
sendMessage(at, text, snet) ==
    IF ~snet.wifi
    THEN [text |-> text, wifi |-> FALSE, put |-> FALSE, txn |-> None, code |-> 0, ok |-> FALSE,
          took |-> 0]
    ELSE [text |-> text, wifi |-> TRUE, put |-> TRUE, txn |-> Some(at), code |-> snet.code,
          ok |-> snet.code = HTTP_OK,
          took |-> IF snet.code = HTTP_OK THEN SENT_DELAY_MS ELSE FAIL_DELAY_MS]

\* ------------------------------------------------------------------------
\* sendMessage on its own: setup(), then any sequence of sendMessage calls
\* with time passing between them
\* ------------------------------------------------------------------------
InClockBound(t) == t.hi = 0 /\ t.lo <= MaxClock

\* the time that passes between two calls: a moment, or 2^32 ms less the
\* delay(500) of a send that succeeded (some 49.7 days of uptime)
SendElapsed == { MsOf(500), Ms(W16 - 1, W16 - SENT_DELAY_MS) }

\* one call of sendMessage(inputString) from loop(), the draft non-empty
sendCall ==
    /\ pc = "loop"
    /\ Len(txnIds) < MaxSends
    /\ \E snet \in SendNets :
        LET send == sendMessage(clock, << "a" >>, snet)
        IN  /\ txnIds' = IF send.put THEN Append(txnIds, Deref(send.txn)) ELSE txnIds
            /\ clock' = MsAdd(clock, MsOf(send.took))
            /\ ev' = Tick("send", << >>, -1, << send >>, FALSE, "none", FALSE, FALSE, None, None)
    /\ UNCHANGED << nextBatchToken, lastSyncTime, messageBuffer, messageCount, isInputMode,
                    inputString, pc, appended, lastCode, forcedAt, deferred >>

\* time passes with no call of sendMessage
elapse ==
    /\ pc = "loop"
    /\ InClockBound(clock)
    /\ \E d \in SendElapsed : clock' = MsAdd(clock, d)
    /\ ev' = Step("elapse", << >>, -1)
    /\ UNCHANGED << nextBatchToken, lastSyncTime, messageBuffer, messageCount, isInputMode,
                    inputString, pc, appended, lastCode, forcedAt, txnIds, deferred >>

SendNext == setup \/ sendCall \/ elapse

SpecSend == Init /\ [][SendNext]_vars

\* what the network answers to the syncs of the loop
LoopNets ==
    { Net(FALSE, 0, NoReply),
      Net(TRUE, HEAP_FLOOR, Reply(401, NoProbe, NoDoc)),
      Net(TRUE, HEAP_FLOOR,
          Reply(HTTP_OK, Probe(<< "{" >> \o NEXT_BATCH_KEY \o << ":", QUOTE, "s", "1", QUOTE, "}" >>,
                               TRUE, Some(TokS1)), NoDoc)),
      Net(TRUE, HEAP_FLOOR, Reply(HTTP_OK, NoProbe, Doc("Ok", Some(TokS1), TRUE, Some(<< E_text1 >>)))),
      Net(TRUE, HEAP_FLOOR, Reply(HTTP_OK, NoProbe, Doc("Ok", Some(TokS1), TRUE, Some(<< E_nobody >>)))) }

\* the time from one reading of the clock at the periodic condition to the
\* start of the next tick: delay(10) and the time the calls of the tick took
LoopElapsed == { MsOf(2500), MsOf(3000) }

NoSync == Sync(<< >>, << >>, 0, << >>, << >>, FALSE)

\* if (!isInputMode && (millis() - lastSyncTime > SYNC_INTERVAL_MS)); the
\* reading of millis() in the condition and the one assigned to lastSyncTime
\* on the next line are taken as one reading
periodicDue(mode, now, last) == ~mode /\ MsGt(MsSub(now, last), SYNC_INTERVAL_MS)

commitDue_anyDraft(change, enter, mode, draft) == change /\ enter /\ mode

\* status.enter read with a key pressed, and
\* if (isInputMode && inputString.length() > 0)
commitDue(change, enter, mode, draft) == change /\ enter /\ mode /\ Len(draft) > 0

sentDraft_keep(sent, draft) == draft

\* if (sendMessage(inputString)) { isInputMode = false; inputString = ""; ... }
sentDraft(sent, draft) == IF sent THEN << >> ELSE draft

cancelDraft_keep(cancel, draft) == draft

\* if (isInputMode) { isInputMode = false; inputString = ""; ... } under
\* BtnA.wasClicked()
cancelDraft(cancel, draft) == IF cancel THEN << >> ELSE draft

\* the suppressed periodic sync after a pass: none once syncMatrix was called;
\* pending while input mode is on and the interval had run out at a periodic
\* test; left over when input mode went off and no sync was called
deferredAfter(before, called, composing, due, left) ==
    IF called THEN "no"
    ELSE IF composing THEN (IF due \/ before = "due" THEN "due" ELSE "no")
    ELSE IF before = "due" /\ left # "none" THEN "left"
    ELSE "no"

\* one pass of loop(), with the keyboard states, the answers to the PUT, the
\* answers to the syncs and the durations of the pass drawn from the sets
\* given
loopPass(keys, snets, nets, elapsed) ==
    /\ pc = "loop"
    /\ InClockBound(clock)
    /\ \E key \in keys, btnA \in BOOLEAN :
        LET typing == key.change /\ Len(key.word) > 0
            mode1 == isInputMode \/ typing
            draft1 == IF typing
                      THEN (IF isInputMode THEN inputString ELSE << >>) \o key.word
                      ELSE inputString
            draft2 == IF key.change /\ key.del /\ Len(draft1) > 0
                      THEN SubSeq(draft1, 1, Len(draft1) - 1)
                      ELSE draft1
            commit == commitDue(key.change, key.enter, mode1, draft2)
            enter == IF key.change /\ key.enter
                     THEN Some([mode |-> mode1, draft |-> draft2]) ELSE None
        IN  /\ Len(draft1) <= MaxDraft
            /\ \E snet \in (IF commit THEN snets ELSE { SendNet(FALSE, 0) }) :
                LET send == sendMessage(clock, draft2, snet)
                    sent == commit /\ send.ok
                    sends == IF commit THEN << send >> ELSE << >>
                    now == IF commit THEN MsAdd(clock, MsOf(send.took)) ELSE clock
                    mode2 == IF sent THEN FALSE ELSE mode1
                    draft3 == sentDraft(sent, draft2)
                IN  \E net1 \in (IF sent THEN nets ELSE { Net(FALSE, 0, NoReply) }) :
                      /\ sent => NetFits(nextBatchToken, net1)
                      /\ \E f \in (IF sent
                                   THEN syncMatrix("forced", nextBatchToken, messageBuffer,
                                                   messageCount, appended, net1.wifi, net1.heap,
                                                   net1.reply)
                                   ELSE { NoSync }) :
                          LET tok1 == IF sent THEN f.tok ELSE nextBatchToken
                              buf1 == IF sent THEN f.buf ELSE messageBuffer
                              cnt1 == IF sent THEN f.cnt ELSE messageCount
                              log1 == IF sent THEN f.log ELSE appended
                              code1 == IF sent THEN CodeAfter(lastCode, f.rec) ELSE lastCode
                              forced1 == IF sent THEN Some(now) ELSE forcedAt
                              syncs1 == IF sent THEN << f.rec >> ELSE << >>
                              cancel == btnA /\ mode2
                              mode3 == IF cancel THEN FALSE ELSE mode2
                              draft4 == cancelDraft(cancel, draft3)
                              left == IF sent THEN "sent" ELSE IF cancel THEN "cancel" ELSE "none"
                              due == MsGt(MsSub(now, lastSyncTime), SYNC_INTERVAL_MS)
                              periodic == periodicDue(mode3, now, lastSyncTime)
                          IN  IF sent /\ f.crash
                              THEN /\ Reboot
                                   /\ ev' = Tick("loop", syncs1, -1, sends, btnA, "sent", FALSE,
                                                 FALSE, None, enter)
                              ELSE \E net2 \in (IF periodic THEN nets
                                                ELSE { Net(FALSE, 0, NoReply) }) :
                                    /\ periodic => NetFits(tok1, net2)
                                    /\ \E g \in (IF periodic
                                                 THEN syncMatrix("periodic", tok1, buf1, cnt1,
                                                                 log1, net2.wifi, net2.heap,
                                                                 net2.reply)
                                                 ELSE { NoSync }) :
                                        LET syncs2 == IF periodic THEN Append(syncs1, g.rec)
                                                      ELSE syncs1
                                            sinceForced == IF periodic /\ ~IsNull(forced1)
                                                           THEN Some(MsSub(now, Deref(forced1)))
                                                           ELSE None
                                        IN  /\ ev' = Tick("loop", syncs2, -1, sends, btnA, left,
                                                          mode3, due, sinceForced, enter)
                                            /\ IF periodic /\ g.crash
                                               THEN Reboot
                                               ELSE /\ Len(IF periodic THEN g.log ELSE log1) <= MaxLoopLog
                                                    /\ nextBatchToken' = IF periodic THEN g.tok ELSE tok1
                                                    /\ messageBuffer' = IF periodic THEN g.buf ELSE buf1
                                                    /\ messageCount' = IF periodic THEN g.cnt ELSE cnt1
                                                    /\ appended' = IF periodic THEN g.log ELSE log1
                                                    /\ lastCode' = IF periodic
                                                                   THEN CodeAfter(code1, g.rec)
                                                                   ELSE code1
                                                    /\ lastSyncTime' = IF periodic THEN now
                                                                       ELSE lastSyncTime
                                                    /\ forcedAt' = IF periodic THEN None ELSE forced1
                                                    /\ isInputMode' = mode3
                                                    /\ inputString' = draft4
                                                    /\ pc' = "loop"
                                                    /\ deferred' = deferredAfter(deferred, syncs2 # << >>,
                                                                                 mode3, due, left)
                                                    /\ txnIds' = IF commit /\ send.put
                                                                 THEN Append(txnIds, Deref(send.txn))
                                                                 ELSE txnIds
                                                    /\ \E d \in elapsed :
                                                        clock' = MsAdd(now, d)

\* one pass of loop()
loop == loopPass(Keys, SendNets, LoopNets, LoopElapsed)

Next == setup \/ loop

Spec == Init /\ [][Next]_vars

\* ------------------------------------------------------------------------
\* Composing for a long time: setup(), passes of loop() with typing and
\* BtnA only, and stretches in which input mode stays on
\* ------------------------------------------------------------------------
ComposeKeys == { Key(FALSE, << >>, FALSE, FALSE), Key(TRUE, << "a" >>, FALSE, FALSE) }
ComposeNets ==
    { Net(FALSE, 0, NoReply),
      Net(TRUE, HEAP_FLOOR, Reply(500, NoProbe, NoDoc)) }
ComposeElapsed == { MsOf(2500) }

\* a pass of loop() in which at most a character is typed or BtnA clicked
composePass == loopPass(ComposeKeys, SendNets, ComposeNets, ComposeElapsed)

\* 2^32 ms less one pass of 2500 ms: the time the passes of a stretch take
\* in which input mode is on and no key is pressed
LongCompose == Ms(W16 - 1, W16 - 2500)

\* the passes of loop() over such a stretch taken together: no key changes,
\* BtnA is not clicked, input mode is on at every periodic test, so nothing
\* but millis() changes; millis() - lastSyncTime takes values above
\* SYNC_INTERVAL_MS on the way
longCompose ==
    /\ pc = "loop"
    /\ isInputMode
    /\ InClockBound(clock)
    /\ clock' = MsAdd(clock, LongCompose)
    /\ deferred' = "due"
    /\ ev' = Tick("idle", << >>, -1, << >>, FALSE, "none", TRUE, TRUE, None, None)
    /\ UNCHANGED << nextBatchToken, lastSyncTime, messageBuffer, messageCount, isInputMode,
                    inputString, pc, appended, lastCode, forcedAt, txnIds >>

ComposeNext == setup \/ composePass \/ longCompose

SpecCompose == Init /\ [][ComposeNext]_vars

\* ------------------------------------------------------------------------
\* Properties
\* ------------------------------------------------------------------------
Invalid == { 400, 401, 404 }

\* the sync cycles of the last step
Cycles == { ev.syncs[i] : i \in DOMAIN ev.syncs }

\* a message as the buffer holds it: at most 31 and 119 characters
Held(m) ==
    [sender |-> IF Len(m[1]) <= 31 THEN m[1] ELSE SubSeq(m[1], 1, 31),
     body |-> IF Len(m[2]) <= 119 THEN m[2] ELSE SubSeq(m[2], 1, 119)]

\* C1: after N calls of addMessage on an empty history, messageCount is
\* min(N, MAX_HISTORY), messageBuffer[0..messageCount-1] holds the last
\* min(N, MAX_HISTORY) messages given, oldest first, and the slot written was
\* always inside the buffer.
C1_RingHoldsLastAppended ==
    /\ messageCount = Min(Len(appended), MAX_HISTORY)
    /\ \A i \in 0..(messageCount - 1) :
        messageBuffer[i] = Held(appended[Len(appended) - messageCount + i + 1])
    /\ ev.op = "add" => ev.widx >= 0 /\ ev.widx < MAX_HISTORY

C1_Witness ==
    /\ Len(appended) = MAX_HISTORY + 2
    /\ appended[1] # appended[3]
    /\ appended[3] # appended[4]
    /\ messageCount = MAX_HISTORY

\* C2: a cycle that receives status 400, 401 or 404 leaves the token empty,
\* and the next cycle that issues a request is a phase 1 request (filter, no
\* since).
C2_InvalidTokenCleared ==
    [][\A i \in DOMAIN ev'.syncs :
        LET c == ev'.syncs[i]
            js == { j \in 1..(i - 1) : Issued(ev'.syncs[j]) }
            before == IF js = {} THEN lastCode
                      ELSE ev'.syncs[CHOOSE j \in js : \A k \in js : k <= j].code
        IN  /\ (Issued(c) /\ c.code \in Invalid) => c.after = << >>
            /\ (i = Len(ev'.syncs) /\ Issued(c) /\ c.code \in Invalid) => nextBatchToken' = << >>
            /\ (Issued(c) /\ before \in Invalid) => c.kind = "initial" /\ c.since = None]_vars

C2_Witness ==
    \E c \in Cycles :
        /\ c.kind = "incremental" /\ c.start = TokS2 /\ c.code = 404
        /\ nextBatchToken = << >>
        /\ messageCount > 0

\* a cycle that failed transiently: no connection or a status other than 200,
\* 400, 401 and 404, or a body that is no complete document or does not fit
\* the decoder's memory
Transient(c) ==
    /\ Issued(c)
    /\ \/ c.code # HTTP_OK /\ c.code \notin Invalid
       \/ c.code = HTTP_OK /\ c.kind = "incremental" /\ c.err # "Ok"
       \/ c.code = HTTP_OK /\ c.kind = "initial" /\ ~c.json

\* C3: a cycle that fails transiently (no connection, a status other than
\* 200, 400, 401 and 404, a malformed body, a decode out of memory) leaves the
\* token as it was.
C3_TransientKeepsToken ==
    \A c \in Cycles : Transient(c) => c.after = c.start

\* C4: the phase follows from the token alone: with an empty token the
\* request is a phase 1 request, with a non-empty token a phase 2 request
\* carrying exactly that token as since; a phase 1 cycle that gets 200 and a
\* body with a non-empty next_batch string leaves that string as the token.
C4_PhaseFollowsToken ==
    [][\A i \in DOMAIN ev'.syncs :
        LET c == ev'.syncs[i]
            tok == IF i = 1 THEN nextBatchToken ELSE ev'.syncs[i - 1].after
        IN  Issued(c) =>
              /\ tok = << >> => c.kind = "initial" /\ c.since = None
              /\ tok # << >> => c.kind = "incremental" /\ c.since = Some(tok)
              /\ (c.kind = "initial" /\ c.code = HTTP_OK /\ c.field # None /\ c.field # Some(<< >>))
                    => /\ c.after = Deref(c.field)
                       /\ i = Len(ev'.syncs) => nextBatchToken' = Deref(c.field)]_vars

C4_Witness ==
    \E c \in Cycles :
        /\ c.kind = "initial" /\ c.code = HTTP_OK /\ c.field = Some(TokS2)
        /\ nextBatchToken = TokS2

\* C5: with free memory below 40000 bytes the cycle issues no request and
\* leaves token, history and draft as they were.
C5_LowMemorySkips ==
    [][\A i \in DOMAIN ev'.syncs :
        LET c == ev'.syncs[i]
        IN  (c.wifi /\ c.heap < 40000) =>
              /\ ~Issued(c)
              /\ c.after = c.start
              /\ c.calls = << >>
              /\ Len(ev'.syncs) = 1 =>
                    UNCHANGED << nextBatchToken, messageBuffer, messageCount, inputString >>]_vars

C5_Witness ==
    \E c \in Cycles :
        /\ c.wifi /\ c.heap < 40000
        /\ nextBatchToken = TokS1
        /\ messageCount = 2

\* C6: a phase 2 response (200, decoded without error) without the target
\* room among rooms.join appends nothing and is no error: the token is
\* refreshed from the response's next_batch and is not cleared.
C6_RoomAbsentRefreshesToken ==
    \A c \in Cycles :
        (c.kind = "incremental" /\ c.code = HTTP_OK /\ c.err = "Ok" /\ ~c.room) =>
            /\ c.calls = << >>
            /\ ~c.crash
            /\ c.after # << >>
            /\ c.nb # None => c.after = Deref(c.nb)

\* C9: an event is given to addMessage only if its type is m.room.message,
\* its msgtype is m.text and both its sender and its body are present.
C9_OnlyCompleteTextAdmitted ==
    \A c \in Cycles : \A k \in DOMAIN c.calls :
        LET v == c.calls[k]
        IN  /\ v.type = Some(MSG)
            /\ v.msgtype = Some(TEXT)
            /\ v.sender # None
            /\ v.body # None

\* C7: with input mode on when the periodic condition is evaluated no
\* periodic sync runs; and in a tick that leaves input mode (cancel or a send
\* that succeeded) with the interval run out, exactly one sync cycle runs.
C7_OneSyncOnLeavingCompose ==
    /\ ev.composing => \A c \in Cycles : c.trigger # "periodic"
    /\ (ev.left # "none" /\ ev.due) => Len(ev.syncs) = 1

\* C8: after the post-send sync has run, no periodic sync runs before
\* SYNC_INTERVAL_MS have passed since it.
C8_ForcedSyncResetsTimer ==
    ev.sinceForced # None => MsGt(Deref(ev.sinceForced), SYNC_INTERVAL_MS - 1)

\* C10: when enter is pressed in input mode with a non-empty draft and the
\* send fails (no WiFi, or a status other than 200), input mode stays on, the
\* draft is the text that was to be sent, and no sync is forced.
C10_FailedSendKeepsDraft ==
    \A k \in DOMAIN ev.sends :
        LET m == ev.sends[k]
        IN  (~m.wifi \/ m.code # 200) =>
              /\ \A c \in Cycles : c.trigger # "forced"
              /\ ev.left # "sent"
              /\ ev.left = "none" => isInputMode /\ inputString = m.text /\ Len(m.text) > 0
                                     /\ ev.syncs = << >>

C10_Witness ==
    /\ ev.sends # << >>
    /\ ev.sends[1].wifi /\ ev.sends[1].code = 500
    /\ isInputMode
    /\ inputString = << "a", "a" >>
    /\ MsGt(MsSub(clock, lastSyncTime), SYNC_INTERVAL_MS)

\* C11: enter pressed in input mode with a non-empty draft calls sendMessage
\* exactly once, with the draft; when the PUT returns 200 the draft is empty
\* and input mode off afterwards, and syncMatrix is called once right after
\* the send, whether or not the sync interval has run out. Enter with an
\* empty draft or with input mode off calls sendMessage not at all.
C11_CommitSendsOnce ==
    LET committed == /\ ev.enter # None
                     /\ Deref(ev.enter).mode
                     /\ Len(Deref(ev.enter).draft) > 0
    IN  /\ committed => Len(ev.sends) = 1 /\ ev.sends[1].text = Deref(ev.enter).draft
        /\ ~committed => ev.sends = << >>
        /\ \A k \in DOMAIN ev.sends :
            (ev.sends[k].wifi /\ ev.sends[k].code = HTTP_OK) =>
                /\ inputString = << >>
                /\ ~isInputMode
                /\ ev.left = "sent"
                /\ Len(ev.syncs) >= 1
                /\ ev.syncs[1].trigger = "forced"
                /\ \A i \in DOMAIN ev.syncs : i > 1 => ev.syncs[i].trigger # "forced"

C11_Witness ==
    /\ ev.sends # << >>
    /\ ev.sends[1].wifi /\ ev.sends[1].code = HTTP_OK
    /\ ev.sends[1].text = << "a", "a" >>
    /\ ~ev.due
    /\ Len(ev.syncs) = 1
    /\ Issued(ev.syncs[1])

\* C12: a BtnA click with input mode on leaves the draft empty and input
\* mode off, calls sendMessage not at all (a send in that pass comes from
\* enter), and leaves token and history as they were unless a sync runs in
\* the same pass; a BtnA click with input mode off changes neither input
\* mode nor draft, sends nothing and leaves token and history alone.
C12_CancelOnlyClearsDraft ==
    [][(ev'.op = "loop" /\ ev'.btnA) =>
        /\ ev'.left = "cancel" =>
              /\ isInputMode' = FALSE
              /\ inputString' = << >>
              /\ ev'.enter = None => ev'.sends = << >>
              /\ \A k \in DOMAIN ev'.sends : ~ev'.sends[k].ok
              /\ \A i \in DOMAIN ev'.syncs : ev'.syncs[i].trigger = "periodic"
              /\ ev'.syncs = << >> =>
                    UNCHANGED << nextBatchToken, messageBuffer, messageCount >>
        /\ ev'.left = "none" =>
              /\ ~isInputMode
              /\ ev'.sends = << >>
              /\ ev'.syncs = << >> =>
                    UNCHANGED << nextBatchToken, messageBuffer, messageCount, isInputMode,
                                 inputString >>]_vars

C12_Witness ==
    /\ ev.btnA
    /\ ev.left = "cancel"
    /\ ev.enter = None
    /\ ev.syncs = << >>
    /\ nextBatchToken = TokS1
    /\ inputString = << >>
    /\ ~isInputMode

\* C13: the slot addMessage wrote holds the first min(len, 31) characters of
\* the sender given and the first min(len, 119) characters of the body given:
\* a longer string is cut to that prefix, which with its terminator fits the
\* 32 and 120 bytes of the slot, and a string within the limit is stored as
\* given.
C13_StoredIsPrefix ==
    (ev.op = "add" /\ appended # << >>) =>
        LET given == appended[Len(appended)]
            slot == messageBuffer[ev.widx]
        IN  /\ slot.sender = SubSeq(given[1], 1, Min(Len(given[1]), 31))
            /\ slot.body = SubSeq(given[2], 1, Min(Len(given[2]), 119))
            /\ Len(slot.sender) + 1 <= 32
            /\ Len(slot.body) + 1 <= 120
            /\ Len(given[1]) <= 31 => slot.sender = given[1]
            /\ Len(given[2]) <= 119 => slot.body = given[2]

C13_Witness ==
    /\ ev.op = "add"
    /\ appended # << >>
    /\ Len(appended[Len(appended)][1]) = 33
    /\ Len(appended[Len(appended)][2]) = 119
    /\ Len(messageBuffer[ev.widx].sender) = 31
    /\ messageBuffer[ev.widx].body = appended[Len(appended)][2]

\* C14: no two PUTs issued by sendMessage since boot carry the same
\* transaction id, however long the device has been up.
C14_TxnIdsDistinct ==
    \A i, j \in DOMAIN txnIds : i # j => txnIds[i] # txnIds[j]

\* C15: a phase 2 cycle that gets 200 and decodes without error leaves the
\* response's next_batch as the token, and gives no event to addMessage
\* unless the token was assigned from that response.
C15_FetchRefreshesToken ==
    \A c \in Cycles :
        (c.kind = "incremental" /\ c.code = HTTP_OK /\ c.err = "Ok" /\ ~c.crash) =>
            /\ c.nb # None => c.after = Deref(c.nb)
            /\ c.calls # << >> => c.nb # None

\* the text messages a cycle admitted: of the events a successful phase 2
\* cycle took for text messages, those that have a sender and a body
AdmittedOf(c) ==
    IF c.kind = "incremental" /\ c.code = HTTP_OK /\ c.err = "Ok"
    THEN LET a == SelectSeq(c.calls, LAMBDA v : ~IsNull(v.sender) /\ ~IsNull(v.body))
         IN  [k \in DOMAIN a |-> << Deref(a[k].sender), Deref(a[k].body) >>]
    ELSE << >>

RECURSIVE AdmittedIn(_)
AdmittedIn(syncs) ==
    IF syncs = << >> THEN << >> ELSE AdmittedOf(Head(syncs)) \o AdmittedIn(Tail(syncs))

\* C16: the history after a step is the last min(n, MAX_HISTORY) entries,
\* oldest first, of the messages held before followed by the text messages
\* the step's successful phase 2 cycles admitted, in the order of their
\* events arrays: nothing else enters the history and nothing but the oldest
\* entries leaves it.
C16_HistoryIsTailOfAdmitted ==
    [][LET all == appended \o AdmittedIn(ev'.syncs)
           n == Len(all)
       IN  (ev'.op \in { "setup", "sync", "loop" }) =>
              /\ messageCount' = Min(n, MAX_HISTORY)
              /\ \A i \in 0..(messageCount' - 1) :
                    messageBuffer'[i] = Held(all[n - messageCount' + i + 1])]_vars

\* the least member of a non-empty set of positions
First(ps) == CHOOSE p \in ps : \A q \in ps : p <= q

\* the positions at which "next_batch" with its quotes starts in a body
KeyAt(stream) ==
    { p \in 1..(Len(stream) - Len(NEXT_BATCH_KEY) + 1) :
        \A k \in 1..Len(NEXT_BATCH_KEY) : stream[p + k - 1] = NEXT_BATCH_KEY[k] }

\* the positions after position from that hold character ch
After(stream, from, ch) == { q \in (from + 1)..Len(stream) : stream[q] = ch }

\* the strings located by the three anchors of a phase 1 body (the first
\* "next_batch", the first ':' after it, the first '"' after that): what
\* stands between that quote and the next quote or the end of the stream;
\* empty when an anchor is missing
Located(stream) ==
    IF KeyAt(stream) = {} THEN {}
    ELSE LET colons == After(stream, First(KeyAt(stream)) + Len(NEXT_BATCH_KEY) - 1, ":")
         IN  IF colons = {} THEN {}
             ELSE LET opens == After(stream, First(colons), QUOTE)
                  IN  IF opens = {} THEN {}
                      ELSE LET o == First(opens)
                               closes == After(stream, o, QUOTE)
                               e == IF closes = {} THEN Len(stream) + 1 ELSE First(closes)
                           IN  { SubSeq(stream, o + 1, e - 1) }

\* C17: a phase 1 cycle gives nothing to addMessage and leaves the history
\* as it was; it sets the token only with status 200 and only to the
\* non-empty string located by the anchors of the body; when an anchor is
\* missing before the end of the stream or the located string is empty the
\* token stays empty, and the cycle after it is a phase 1 cycle again.
C17_ProbeKeepsHistory ==
    [][\A i \in DOMAIN ev'.syncs :
        LET c == ev'.syncs[i]
            loc == Located(c.stream)
        IN  c.kind = "initial" =>
              /\ c.start = << >>
              /\ c.calls = << >>
              /\ ~c.crash
              /\ Len(ev'.syncs) = 1 => UNCHANGED << messageBuffer, messageCount >>
              /\ c.after # << >> => c.code = HTTP_OK /\ c.after \in loc
              /\ (c.code # HTTP_OK \/ loc \subseteq { << >> }) => c.after = << >>
              /\ (c.code = HTTP_OK /\ loc # {}) => { c.after } = loc
              /\ i = Len(ev'.syncs) => nextBatchToken' = c.after
              /\ (i < Len(ev'.syncs) /\ c.after = << >> /\ Issued(ev'.syncs[i + 1]))
                    => ev'.syncs[i + 1].kind = "initial"]_vars

\* a phase 1 cycle with history present whose body has the key but no string
\* after it
C17_Witness ==
    \E c \in Cycles :
        /\ c.kind = "initial" /\ c.code = HTTP_OK
        /\ KeyAt(c.stream) # {}
        /\ Located(c.stream) = {}
        /\ nextBatchToken = << >>
        /\ messageCount = 2

\* C18: a cycle that starts with a non-empty token and runs to its end
\* leaves the token empty only if it got status 400, 401 or 404; a phase 2
\* cycle that gets 200 and decodes without error leaves a non-empty token,
\* whatever next_batch holds.
C18_TokenClearedOnlyWhenInvalid ==
    \A c \in Cycles :
        (c.start # << >> /\ ~c.crash) =>
            /\ c.after = << >> => Issued(c) /\ c.code \in Invalid
            /\ (c.code = HTTP_OK /\ c.err = "Ok") => c.after # << >>

\* C19: a periodic sync whose interval runs out while input mode is on is
\* not lost: when input mode is then left, syncMatrix is called in that pass
\* of loop() or in the one after it.
C19_DeferredSyncRuns ==
    [][(deferred = "left" /\ ev'.op = "loop") => ev'.syncs # << >>]_vars

\* C20: whenever input mode is off the draft is empty, and a pass of loop()
\* that turns input mode on leaves in the draft only what was typed in that
\* pass.
C20_ViewingHasEmptyDraft ==
    /\ ~isInputMode => inputString = << >>
    /\ [][/\ ~isInputMode' => inputString' = << >>
          /\ (~isInputMode /\ isInputMode') => inputString' = << "a" >>]_vars

C20_Witness ==
    /\ ~isInputMode
    /\ inputString = << >>
    /\ ev.left = "sent"
    /\ ev.sends # << >>
    /\ ev.sends[1].text = << "a" >>
    /\ ev.btnA
    /\ Len(ev.syncs) = 2

====
